---- MODULE Spec2Model ----
(***************************************************************************)
(* Structured-grid mesh generators (make_grid, make_cylinder,              *)
(* make_uv_sphere) and the .obj writer (writeObj).                         *)
(*                                                                         *)
(* One behaviour is one run of a generator script: the generator is       *)
(* called on sample sequences of Len(rows) x Len(columns) entries, builds  *)
(* the vertex list and the face list step by step, and, when it returns,   *)
(* the pair is handed to writeObj, which emits the file text.              *)
(***************************************************************************)
EXTENDS Integers, Sequences, FiniteSets, TLC

\* Largest number of row samples / column samples explored.
MaxRows == 4
MaxCols == 3

\* Sphere radius (the script's default), in whole units.
radius == 1

Generators == {"make_grid", "make_cylinder", "make_uv_sphere"}

VARIABLES
  fn,                     \* which generator runs
  rows, columns,          \* the two sample sequences (np.arange results)
  vertices, faces,        \* the mesh under construction
  vertex_index,           \* running linear index of the current vertex
  row, col,               \* positions of the two nested for loops
  i,                      \* position of the closure loop / write loop
  first_column_vertices,  \* sphere: range built at the pole closure
  last_column_vertices,
  pc,                     \* control point
  exc,                    \* exception that ended the run ("none" if none)
  out                     \* text written to the file so far

vars == <<fn, rows, columns, vertices, faces, vertex_index, row, col, i,
          first_column_vertices, last_column_vertices, pc, exc, out>>

----------------------------------------------------------------------------
\* Python helpers

\* 0-based indexing into a sequence.
At(s, n) == s[n + 1]

\* Number of elements of Python's range(start, stop, step), step # 0.
RangeLen(start, stop, step) ==
  IF step > 0
    THEN IF stop > start THEN (stop - start + step - 1) \div step ELSE 0
    ELSE IF start > stop THEN (start - stop + (-step) - 1) \div (-step) ELSE 0

\* Python's range(start, stop, step) as a sequence, step # 0.
PyRange(start, stop, step) ==
  [n \in 1..RangeLen(start, stop, step) |-> start + (n - 1) * step]

\* The decimal digit characters.
Digits == <<"0", "1", "2", "3", "4", "5", "6", "7", "8", "9">>

\* str.format of an integer: its decimal digits, most significant first,
\* with a leading minus sign for a negative value.
RECURSIVE Decimal(_)
Decimal(n) ==
  IF n < 10 THEN <<At(Digits, n)>>
            ELSE Decimal(n \div 10) \o <<At(Digits, n % 10)>>

Format(n) == IF n < 0 THEN <<"-">> \o Decimal(-n) ELSE Decimal(n)

\* np.arange(start, stop, step) keeps the samples start + n*step below stop;
\* the n-th sample is represented by its ordinal n.
Arange(n) == [k \in 1..n |-> k - 1]

\* Position of the grid sample (col, row): the sample pair itself; the
\* trigonometric mapping of each shape is not interpreted.
Position(c, r) == <<c, r, 0>>

----------------------------------------------------------------------------
\* Grid helpers shared by the three generators

back_a_row_raises(v) == v - Len(columns) < 0
back_a_row(v) == v - Len(columns)

\* Variant: the test looks at the last column instead of the first.
back_a_column_raises_last(v) == v % Len(columns) = Len(columns) - 1
back_a_column_raises(v) == v % Len(columns) = 0
back_a_column(v) == v - 1

\* create_cell raises IndexError when one of its helpers does.
create_cell_raises(lower_right_vertex_index) ==
  \/ back_a_column_raises(vertex_index)
  \/ back_a_row_raises(vertex_index)
  \/ back_a_column_raises(back_a_row(vertex_index))

\* Variant: the split along the other diagonal (lower_left, lower_right,
\* upper_left) and (upper_right, upper_left, lower_right).
create_cell_other_diagonal(lower_right_vertex_index) ==
  LET lower_left_vertex_index  == back_a_column(vertex_index)
      upper_right_vertex_index == back_a_row(vertex_index)
      upper_left_vertex_index  == back_a_column(upper_right_vertex_index)
      triangle1 == <<lower_left_vertex_index, lower_right_vertex_index,
                     upper_left_vertex_index>>
      triangle2 == <<upper_right_vertex_index, upper_left_vertex_index,
                     lower_right_vertex_index>>
  IN <<triangle1, triangle2>>

\* The corners are looked up from the enclosing vertex_index, the triangles
\* use the parameter for the lower-right corner.
create_cell(lower_right_vertex_index) ==
  LET lower_left_vertex_index  == back_a_column(vertex_index)
      upper_right_vertex_index == back_a_row(vertex_index)
      upper_left_vertex_index  == back_a_column(upper_right_vertex_index)
      triangle1 == <<upper_left_vertex_index, lower_right_vertex_index,
                     lower_left_vertex_index>>
      triangle2 == <<lower_right_vertex_index, upper_left_vertex_index,
                     upper_right_vertex_index>>
  IN <<triangle1, triangle2>>

first_row_vertices == PyRange(0, Len(columns), 1)
last_row_vertices  == PyRange(vertex_index - Len(columns), vertex_index, 1)

\* Variant: the first row taken as the lower row and the last row as the
\* upper row of the wrap quad.
WrapTriangles_rows_swapped(n) ==
  LET lower_left_vertex_index  == At(first_row_vertices, n)
      lower_right_vertex_index == At(first_row_vertices, n + 1)
      upper_left_vertex_index  == At(last_row_vertices, n)
      upper_right_vertex_index == At(last_row_vertices, n + 1)
      triangle1 == <<lower_left_vertex_index, lower_right_vertex_index,
                     upper_right_vertex_index>>
      triangle2 == <<upper_right_vertex_index, upper_left_vertex_index,
                     lower_left_vertex_index>>
  IN <<triangle1, triangle2>>

\* The two triangles the row-wrap loop appends for column pair (n, n+1).
WrapTriangles(n) ==
  LET lower_left_vertex_index  == At(last_row_vertices, n)
      lower_right_vertex_index == At(last_row_vertices, n + 1)
      upper_left_vertex_index  == At(first_row_vertices, n)
      upper_right_vertex_index == At(first_row_vertices, n + 1)
      triangle1 == <<lower_left_vertex_index, lower_right_vertex_index,
                     upper_right_vertex_index>>
      triangle2 == <<upper_right_vertex_index, upper_left_vertex_index,
                     lower_left_vertex_index>>
  IN <<triangle1, triangle2>>

top_face == PyRange(0, vertex_index, Len(columns))

\* Variant: the range stops one index early and loses the first row.
bottom_face_short ==
  PyRange(vertex_index - 1, Len(columns) - 1, -1 * Len(columns))

bottom_face == PyRange(vertex_index - 1, Len(columns) - 2, -1 * Len(columns))

\* Variant: the range stops one index early and loses the last row.
first_column_range_short ==
  PyRange(0, vertex_index - Len(columns), Len(columns))

\* Sphere: the column ranges built before the poles are added.
first_column_range ==
  PyRange(0, vertex_index - Len(columns) + 1, Len(columns))
last_column_range ==
  PyRange(Len(columns) - 1, vertex_index, Len(columns))

\* Sphere: one fan triangle of the north / south pole, whose index is the
\* current vertex_index.
north_triangle(v1, v2) == <<v1, v2, vertex_index>>

\* Variant: the south fan wound like the north fan.
south_triangle_unreversed(v1, v2) == <<vertex_index, v1, v2>>

south_triangle(v1, v2) == <<vertex_index, v2, v1>>

\* Control point after the nested for loops of each generator.
AfterTraversal ==
  IF fn = "make_grid" THEN "returned" ELSE "wrap"

----------------------------------------------------------------------------
\* State at entry of the generator body, after rows and columns are built.

Init ==
  /\ fn \in Generators
  /\ \E R \in 0..MaxRows : rows = Arange(R)
  /\ \E C \in 0..MaxCols : columns = Arange(C)
  /\ vertices = <<>>
  /\ faces = <<>>
  /\ vertex_index = 0
  /\ row = 0
  /\ col = 0
  /\ i = 0
  /\ first_column_vertices = <<>>
  /\ last_column_vertices = <<>>
  /\ pc = "for"
  /\ exc = "none"
  /\ out = <<>>

----------------------------------------------------------------------------
\* Grid traversal

\* Heads of "for row in rows: for col in columns:".
ForLoop ==
  /\ pc = "for"
  /\ pc' = IF row < Len(rows) /\ Len(columns) > 0 THEN "try" ELSE AfterTraversal
  /\ i' = 0
  /\ UNCHANGED <<fn, rows, columns, vertices, faces, vertex_index, row, col,
                 first_column_vertices, last_column_vertices, exc, out>>

\* try: for face in create_cell(vertex_index): faces.append(face)
\* except IndexError: pass
TryCreateCell ==
  /\ pc = "try"
  /\ faces' = IF create_cell_raises(vertex_index)
                THEN faces
                ELSE faces \o create_cell(vertex_index)
  /\ pc' = "store"
  /\ UNCHANGED <<fn, rows, columns, vertices, vertex_index, row, col, i,
                 first_column_vertices, last_column_vertices, exc, out>>

\* vertices.append(...); vertex_index += 1; next iteration.
StoreVertex ==
  /\ pc = "store"
  /\ vertices' = Append(vertices, Position(At(columns, col), At(rows, row)))
  /\ vertex_index' = vertex_index + 1
  /\ IF col + 1 < Len(columns)
       THEN col' = col + 1 /\ row' = row
       ELSE col' = 0 /\ row' = row + 1
  /\ pc' = "for"
  /\ UNCHANGED <<fn, rows, columns, faces, i,
                 first_column_vertices, last_column_vertices, exc, out>>

----------------------------------------------------------------------------
\* Row wrap (make_cylinder, make_uv_sphere)

\* for i in range(len(first_row_vertices) - 1): ...
RowWrap ==
  /\ pc = "wrap"
  /\ IF i < Len(first_row_vertices) - 1
       THEN /\ faces' = faces \o WrapTriangles(i)
            /\ i' = i + 1
            /\ pc' = "wrap"
       ELSE /\ faces' = faces
            /\ i' = 0
            /\ pc' = IF fn = "make_cylinder" THEN "caps" ELSE "north_pole"
  /\ UNCHANGED <<fn, rows, columns, vertices, vertex_index, row, col,
                 first_column_vertices, last_column_vertices, exc, out>>

----------------------------------------------------------------------------
\* Cylinder end caps

\* range(0, vertex_index, len(columns)) raises ValueError on a zero step.
CylinderCaps ==
  /\ pc = "caps"
  /\ IF Len(columns) = 0
       THEN /\ pc' = "raised"
            /\ exc' = "ValueError"
            /\ faces' = faces
       ELSE /\ pc' = "returned"
            /\ exc' = exc
            /\ faces' = faces \o <<top_face, bottom_face>>
  /\ UNCHANGED <<fn, rows, columns, vertices, vertex_index, row, col, i,
                 first_column_vertices, last_column_vertices, out>>

----------------------------------------------------------------------------
\* Sphere pole closure

\* The two column ranges, then the north pole vertex.
NorthPole ==
  /\ pc = "north_pole"
  /\ IF Len(columns) = 0
       THEN /\ pc' = "raised"
            /\ exc' = "ValueError"
            /\ UNCHANGED <<vertices, first_column_vertices,
                           last_column_vertices>>
       ELSE /\ first_column_vertices' = first_column_range
            /\ last_column_vertices' = last_column_range
            /\ vertices' = Append(vertices, <<0, 0, radius>>)
            /\ pc' = "north_fan"
            /\ exc' = exc
  /\ i' = 0
  /\ UNCHANGED <<fn, rows, columns, faces, vertex_index, row, col, out>>

\* for v1, v2 in zip(first_column_vertices[:-1], first_column_vertices[1:])
NorthFan ==
  /\ pc = "north_fan"
  /\ IF i < Len(first_column_vertices) - 1
       THEN /\ faces' = Append(faces,
                 north_triangle(At(first_column_vertices, i),
                                At(first_column_vertices, i + 1)))
            /\ i' = i + 1
            /\ pc' = "north_fan"
       ELSE /\ faces' = faces
            /\ i' = 0
            /\ pc' = "north_close"
  /\ UNCHANGED <<fn, rows, columns, vertices, vertex_index, row, col,
                 first_column_vertices, last_column_vertices, exc, out>>

\* faces.append([first_column_vertices[-1], first_column_vertices[0], ...]);
\* indexing an empty range raises IndexError.
NorthClose ==
  /\ pc = "north_close"
  /\ IF Len(first_column_vertices) = 0
       THEN /\ pc' = "raised"
            /\ exc' = "IndexError"
            /\ UNCHANGED <<faces, vertex_index>>
       ELSE /\ faces' = Append(faces,
                 north_triangle(
                   first_column_vertices[Len(first_column_vertices)],
                   At(first_column_vertices, 0)))
            /\ vertex_index' = vertex_index + 1
            /\ pc' = "south_pole"
            /\ exc' = exc
  /\ UNCHANGED <<fn, rows, columns, vertices, row, col, i,
                 first_column_vertices, last_column_vertices, out>>

SouthPole ==
  /\ pc = "south_pole"
  /\ vertices' = Append(vertices, <<0, 0, -1 * radius>>)
  /\ i' = 0
  /\ pc' = "south_fan"
  /\ UNCHANGED <<fn, rows, columns, faces, vertex_index, row, col,
                 first_column_vertices, last_column_vertices, exc, out>>

\* for v1, v2 in zip(last_column_vertices[:-1], last_column_vertices[1:])
SouthFan ==
  /\ pc = "south_fan"
  /\ IF i < Len(last_column_vertices) - 1
       THEN /\ faces' = Append(faces,
                 south_triangle(At(last_column_vertices, i),
                                At(last_column_vertices, i + 1)))
            /\ i' = i + 1
            /\ pc' = "south_fan"
       ELSE /\ faces' = faces
            /\ i' = 0
            /\ pc' = "south_close"
  /\ UNCHANGED <<fn, rows, columns, vertices, vertex_index, row, col,
                 first_column_vertices, last_column_vertices, exc, out>>

SouthClose ==
  /\ pc = "south_close"
  /\ IF Len(last_column_vertices) = 0
       THEN /\ pc' = "raised"
            /\ exc' = "IndexError"
            /\ UNCHANGED <<faces, vertex_index>>
       ELSE /\ faces' = Append(faces,
                 south_triangle(
                   last_column_vertices[Len(last_column_vertices)],
                   At(last_column_vertices, 0)))
            /\ vertex_index' = vertex_index + 1
            /\ pc' = "returned"
            /\ exc' = exc
  /\ UNCHANGED <<fn, rows, columns, vertices, row, col, i,
                 first_column_vertices, last_column_vertices, out>>

----------------------------------------------------------------------------
\* writeObj(vertices, faces, out_fname), called by the script on the
\* returned pair with no commentString.  The file is a sequence of
\* characters; the fixed header text is kept as one element.

header == <<"# mesh written by writeObj function", "\n">>

\* f"v {x} {y} {z}\n"
VertexLine(v) ==
  <<"v", " ">> \o Format(v[1]) \o <<" ">> \o Format(v[2]) \o <<" ">>
    \o Format(v[3]) \o <<"\n">>

\* Variant: the ids written as stored, 0-based.
RECURSIVE FaceIds_zero_based(_)
FaceIds_zero_based(face) ==
  IF face = <<>> THEN <<>>
  ELSE <<" ">> \o Format(Head(face)) \o FaceIds_zero_based(Tail(face))

\* " {}".format(vertex_id + 1) for each vertex_id of the face, in order.
RECURSIVE FaceIds(_)
FaceIds(face) ==
  IF face = <<>> THEN <<>>
  ELSE <<" ">> \o Format(Head(face) + 1) \o FaceIds(Tail(face))

FaceLine(face) == <<"f">> \o FaceIds(face) \o <<"\n">>

HasNegativeId(face) == \E n \in 1..Len(face) : face[n] < 0

WriteHeader ==
  /\ pc = "returned"
  /\ out' = header
  /\ i' = 0
  /\ pc' = "write_vertices"
  /\ UNCHANGED <<fn, rows, columns, vertices, faces, vertex_index, row, col,
                 first_column_vertices, last_column_vertices, exc>>

\* for x, y, z in vertices: ...
WriteVertex ==
  /\ pc = "write_vertices"
  /\ IF i < Len(vertices)
       THEN /\ out' = out \o VertexLine(At(vertices, i))
            /\ i' = i + 1
            /\ pc' = "write_vertices"
       ELSE /\ out' = out
            /\ i' = 0
            /\ pc' = "write_faces"
  /\ UNCHANGED <<fn, rows, columns, vertices, faces, vertex_index, row, col,
                 first_column_vertices, last_column_vertices, exc>>

\* for face in faces: ...  A negative vertex_id enters the debugger
\* (pdb.set_trace()); the session either continues, and the id is written
\* like any other, or quits, which ends the run with BdbQuit.
WriteFace ==
  /\ pc = "write_faces"
  /\ \/ /\ i < Len(faces)
        /\ out' = out \o FaceLine(At(faces, i))
        /\ i' = i + 1
        /\ UNCHANGED <<pc, exc>>
     \/ /\ i < Len(faces)
        /\ HasNegativeId(At(faces, i))
        /\ pc' = "raised"
        /\ exc' = "BdbQuit"
        /\ UNCHANGED <<out, i>>
     \/ /\ i >= Len(faces)
        /\ pc' = "written"
        /\ UNCHANGED <<out, i, exc>>
  /\ UNCHANGED <<fn, rows, columns, vertices, faces, vertex_index, row, col,
                 first_column_vertices, last_column_vertices>>

----------------------------------------------------------------------------

Next ==
  \/ ForLoop
  \/ TryCreateCell
  \/ StoreVertex
  \/ RowWrap
  \/ CylinderCaps
  \/ NorthPole
  \/ NorthFan
  \/ NorthClose
  \/ SouthPole
  \/ SouthFan
  \/ SouthClose
  \/ WriteHeader
  \/ WriteVertex
  \/ WriteFace

Spec == Init /\ [][Next]_vars

----------------------------------------------------------------------------
\* Shorthands used by the properties

R == Len(rows)
C == Len(columns)

\* Number of triangles the traversal of an R x C grid leaves in faces.
InteriorCount == IF R >= 2 /\ C >= 2 THEN 2 * (R - 1) * (C - 1) ELSE 0

\* Number of triangles the row wrap appends.
WrapCount == IF fn = "make_grid" \/ C = 0 THEN 0 ELSE 2 * (C - 1)

\* The nested for loops have just been left.
TraversalFinished ==
  \/ fn = "make_grid" /\ pc = "returned"
  \/ fn # "make_grid" /\ pc = "wrap" /\ i = 0

\* The row-wrap loop has just been left.
WrapFinished == pc \in {"caps", "north_pole"}

IsTriangle(f) ==
  /\ Len(f) = 3
  /\ f[1] # f[2] /\ f[2] # f[3] /\ f[1] # f[3]

\* f is g read from some starting position, cyclically.
IsRotation(f, g) ==
  /\ Len(f) = Len(g)
  /\ \E s \in 0..(Len(g) - 1) :
       \A n \in 1..Len(g) : f[n] = g[((n - 1 + s) % Len(g)) + 1]

\* The interior split of a quad, from its four corners.
TriangleA(upper_left, upper_right, lower_left, lower_right) ==
  <<upper_left, lower_right, lower_left>>
TriangleB(upper_left, upper_right, lower_left, lower_right) ==
  <<lower_right, upper_left, upper_right>>

----------------------------------------------------------------------------
\* C1: when the row-major traversal ends there are exactly R*C vertices and
\* exactly 2*(R-1)*(C-1) faces if R >= 2 and C >= 2, none otherwise; every
\* one is a triangle with three pairwise distinct indices in 0..R*C-1.
C1_InteriorCounts ==
  TraversalFinished =>
    /\ Len(vertices) = R * C
    /\ Len(faces) = InteriorCount
    /\ (R < 2 \/ C < 2) => faces = <<>>
    /\ \A n \in 1..Len(faces) :
         /\ IsTriangle(faces[n])
         /\ \A m \in 1..3 : faces[n][m] \in 0..(R * C - 1)

C1_Witness ==
  /\ TraversalFinished
  /\ R >= 3 /\ C >= 3
  /\ Len(faces) = 2 * (R - 1) * (C - 1)

\* C2: the cell attempt at grid position (row, col), v = row*C + col, appends
\* A = (v-C-1, v, v-1) and then B = (v, v-C-1, v-C) when row # 0 and col # 0,
\* appends nothing otherwise, and the traversal goes on to store the vertex.
C2_CellRule ==
  [][pc = "try" =>
       LET v == row * C + col
       IN /\ faces' = IF row # 0 /\ col # 0
                        THEN faces \o << <<v - C - 1, v, v - 1>>,
                                         <<v, v - C - 1, v - C>> >>
                        ELSE faces
          /\ pc' = "store"
          /\ vertices' = vertices]_vars

C2_Witness ==
  /\ pc = "store"
  /\ row = 2 /\ col = 1
  /\ Len(faces) >= 2
  /\ faces[Len(faces) - 1] = <<row * C + col - C - 1, row * C + col,
                               row * C + col - 1>>
  /\ faces[Len(faces)] = <<row * C + col, row * C + col - C - 1,
                           row * C + col - C>>

\* C3: in every state of the generation, every index of every face in the
\* face list is the index of a vertex already in the vertex list.
C3_NoForwardReference ==
  \A n \in 1..Len(faces) :
    \A m \in 1..Len(faces[n]) :
      0 <= faces[n][m] /\ faces[n][m] < Len(vertices)

\* C4: no generator ends in an exception, whatever R >= 0 and C >= 0.
C4_Total ==
  ~(pc = "raised" /\ exc \in {"ValueError", "IndexError"})

\* C5: with zero rows or zero columns the returned mesh has no face and no
\* grid vertex.
C5_EmptyMesh ==
  (pc = "returned" /\ (R = 0 \/ C = 0)) =>
    /\ faces = <<>>
    /\ \A n \in 1..Len(vertices) :
         vertices[n] \in {<<0, 0, radius>>, <<0, 0, -1 * radius>>}

\* C6: the row wrap appends, after the interior triangles, exactly two
\* triangles per adjacent column pair (n, n+1), 0 <= n <= C-2, that is
\* 2*(C-1) triangles; their indices are first-row indices 0..C-1 and last-row
\* indices (R-1)*C..R*C-1, and up to rotation they are the triangles A and B
\* of the interior split of the quad whose upper row is the last row and
\* whose lower row is the first row.  make_grid appends none.
C6_RowWrap ==
  /\ WrapFinished =>
       /\ Len(faces) = InteriorCount + WrapCount
       /\ C >= 1 => Len(faces) - InteriorCount = 2 * (C - 1)
       /\ \A n \in 0..(C - 2) :
            LET t1 == faces[InteriorCount + 2 * n + 1]
                t2 == faces[InteriorCount + 2 * n + 2]
                ul == (R - 1) * C + n
                ur == (R - 1) * C + n + 1
                ll == n
                lr == n + 1
                A  == TriangleA(ul, ur, ll, lr)
                B  == TriangleB(ul, ur, ll, lr)
            IN /\ \/ IsRotation(t1, A) /\ IsRotation(t2, B)
                  \/ IsRotation(t1, B) /\ IsRotation(t2, A)
               /\ \A m \in 1..3 :
                    /\ t1[m] \in 0..(C - 1) \cup ((R - 1) * C)..(R * C - 1)
                    /\ t2[m] \in 0..(C - 1) \cup ((R - 1) * C)..(R * C - 1)
  /\ (fn = "make_grid" /\ pc = "returned") => Len(faces) = InteriorCount

C6_Witness ==
  /\ WrapFinished
  /\ R >= 3 /\ C >= 3
  /\ Len(faces) = InteriorCount + 2 * (C - 1)

\* Number of faces the pole closure of the sphere has appended.
FanCount == Len(faces) - InteriorCount - WrapCount

\* C7 as stated: the pole closure adds the two pole vertices at indices R*C
\* and R*C+1 and exactly 2*C triangles, C per pole.
C7_FanPerColumnCount ==
  (fn = "make_uv_sphere" /\ pc = "returned") =>
    /\ Len(vertices) = R * C + 2
    /\ FanCount = 2 * C

\* C7 amended: the pole closure adds the north pole at index R*C and the
\* south pole at index R*C+1, and exactly 2*R triangles: R triangles ending
\* in the north pole over the first-column vertices, then R triangles
\* starting with the south pole over the last-column vertices.
C7_FanPerRowCount ==
  (fn = "make_uv_sphere" /\ pc = "returned") =>
    /\ Len(vertices) = R * C + 2
    /\ vertices[R * C + 1] = <<0, 0, radius>>
    /\ vertices[R * C + 2] = <<0, 0, -1 * radius>>
    /\ FanCount = 2 * R
    /\ \A n \in 1..R :
         LET north == faces[InteriorCount + WrapCount + n]
             south == faces[InteriorCount + WrapCount + R + n]
         IN /\ Len(north) = 3 /\ Len(south) = 3
            /\ north[3] = R * C
            /\ north[1] % C = 0 /\ north[2] % C = 0
            /\ south[1] = R * C + 1
            /\ south[2] % C = C - 1 /\ south[3] % C = C - 1

C7_Witness ==
  /\ fn = "make_uv_sphere" /\ pc = "returned"
  /\ R = 4 /\ C = 2
  /\ FanCount = 8

\* C8: for R >= 1 and C >= 1 the last two faces of make_cylinder are the
\* top cap, the first-column vertex r*C of every row r = 0..R-1 in that
\* order, and the bottom cap, the last-column vertex r*C + (C-1) of every
\* row r = R-1..0 in that order.
C8_CylinderCaps ==
  (fn = "make_cylinder" /\ pc = "returned" /\ R >= 1 /\ C >= 1) =>
    /\ Len(faces) = InteriorCount + WrapCount + 2
    /\ faces[Len(faces) - 1] = [n \in 1..R |-> (n - 1) * C]
    /\ faces[Len(faces)] = [n \in 1..R |-> (R - n) * C + (C - 1)]

C8_Witness ==
  /\ fn = "make_cylinder" /\ pc = "returned"
  /\ R >= 3 /\ C >= 2
  /\ Len(faces[Len(faces)]) = R

----------------------------------------------------------------------------
\* Reading the file text back

\* The lines of a text: the stretches of characters that end at each
\* newline, without the newline.
Lines(text) ==
  LET ends == {k \in 1..Len(text) : text[k] = "\n"}
      end(n) == CHOOSE p \in ends : Cardinality({q \in ends : q < p}) = n - 1
  IN [n \in 1..Cardinality(ends) |->
        SubSeq(text, IF n = 1 THEN 1 ELSE end(n - 1) + 1, end(n) - 1)]

\* The pieces of a line between single spaces.
RECURSIVE Split(_, _, _, _)
Split(s, k, cur, acc) ==
  IF k > Len(s) THEN Append(acc, cur)
  ELSE IF s[k] = " " THEN Split(s, k + 1, <<>>, Append(acc, cur))
  ELSE Split(s, k + 1, Append(cur, s[k]), acc)

Fields(line) == Split(line, 1, <<>>, <<>>)

DigitValue(ch) == CHOOSE d \in 0..9 : Digits[d + 1] = ch

RECURSIVE ParseNat(_, _, _)
ParseNat(tok, k, acc) ==
  IF k > Len(tok) THEN acc
  ELSE ParseNat(tok, k + 1, 10 * acc + DigitValue(tok[k]))

ParseInt(tok) ==
  IF tok[1] = "-" THEN 0 - ParseNat(tok, 2, 0) ELSE ParseNat(tok, 1, 0)

\* The numbers of a record line, after its keyword.
Numbers(line) ==
  LET fs == Fields(line)
  IN [n \in 1..(Len(fs) - 1) |-> ParseInt(fs[n + 1])]

Keyword(line) == Fields(line)[1]

\* C9: the written file is the header line, then one "v" record per vertex
\* in list order, then one "f" record per face in list order; when no face
\* index is negative, the numbers of the k-th "f" record, each decreased by
\* one, are exactly the k-th face.
C9_RoundTrip ==
  (pc = "written"
     /\ \A n \in 1..Len(faces) : ~HasNegativeId(faces[n])) =>
    LET ls == Lines(out)
        nv == Len(vertices)
        nf == Len(faces)
    IN /\ Len(ls) = 1 + nv + nf
       /\ ls[1] = <<"# mesh written by writeObj function">>
       /\ \A n \in 1..nv :
            /\ Keyword(ls[1 + n]) = <<"v">>
            /\ Numbers(ls[1 + n]) = vertices[n]
       /\ \A n \in 1..nf :
            /\ Keyword(ls[1 + nv + n]) = <<"f">>
            /\ [m \in 1..Len(Numbers(ls[1 + nv + n])) |->
                  Numbers(ls[1 + nv + n])[m] - 1] = faces[n]

C9_Witness ==
  /\ pc = "written"
  /\ Len(faces) >= 12
  /\ \E n \in 1..Len(faces) : \E m \in 1..Len(faces[n]) : faces[n][m] >= 10
  /\ \A n \in 1..Len(faces) : ~HasNegativeId(faces[n])

----------------------------------------------------------------------------
\* Directed edges of the mesh

\* The occurrences <<n, m>> of the directed edge (a, b): face n has a at
\* position m and b at the cyclically next position.
Occurrences(a, b) ==
  {o \in {<<n, m>> : n \in 1..Len(faces), m \in 1..3} :
     /\ o[2] <= Len(faces[o[1]])
     /\ faces[o[1]][o[2]] = a
     /\ faces[o[1]][(o[2] % Len(faces[o[1]])) + 1] = b}

\* C10: in the mesh make_uv_sphere returns for R >= 3 and C >= 2 no directed
\* edge occurs in more than one face and the reverse of every directed edge
\* occurs in exactly one face.
C10_ClosedConsistent ==
  (fn = "make_uv_sphere" /\ pc = "returned" /\ R >= 3 /\ C >= 2) =>
    \A n \in 1..Len(faces) :
      /\ Len(faces[n]) = 3
      /\ \A m \in 1..3 :
           LET a == faces[n][m]
               b == faces[n][(m % 3) + 1]
           IN /\ Cardinality(Occurrences(a, b)) = 1
              /\ Cardinality(Occurrences(b, a)) = 1

C10_Witness ==
  /\ fn = "make_uv_sphere" /\ pc = "returned"
  /\ R >= 3 /\ C >= 3
  /\ Len(faces) = 2 * (R - 1) * (C - 1) + 2 * (C - 1) + 2 * R

====
